---- MODULE Spec2Model ----
(***************************************************************************)
(* Model of the Ollama client library (src/src/lib.rs): the NDJSON stream  *)
(* decoders of pull_model_stream and send_chat_request_stream, the         *)
(* aggregating operations send_chat_request and pull_model that consume    *)
(* them, send_chat_request_with_images, and the tool registry with         *)
(* handle_tool_calls.                                                      *)
(*                                                                         *)
(* Wire language.  The response body is a sequence of bytes.  JSON text is *)
(* abstracted by a small byte alphabet that is parsed, not assumed:        *)
(*   "{" "}"   open and close a JSON object                                *)
(*   "a" "b"   one character of the text field (message.content of a chat  *)
(*             record, status of a pull record)                            *)
(*   "p" "q"   a tool_calls field holding one call (P or Q)                *)
(*   "e"       a tool_calls field holding the empty list                   *)
(*   "d" "n"   the field done:true / done:false                            *)
(*   "g"       a digest field                                              *)
(*   "t0" "t1" a total field with value 0 / 1                              *)
(*   "tn"      a total field whose value is no unsigned integer (-1)       *)
(*   "c0" "c1" a completed field with value 0 / 1                          *)
(*   "x"       a byte that is no JSON syntax                               *)
(*   "xFF"     a byte that is no valid UTF-8                               *)
(*   "NL"      the newline byte b'\n'                                      *)
(* Option<T> is a sequence: <<>> is None, <<v>> is Some(v).                *)
(***************************************************************************)
EXTENDS Integers, Sequences, FiniteSets, TLC

\* ------------------------------------------------------------------ bounds
MaxRecs == 2
MaxChunks == 2
MaxErrors == 1
MaxTools == 2
MaxCalls == 2
MaxMsgs == 2
MaxPaths == 2

\* ------------------------------------------------------------ wire language
NL == "NL"
TextByte == {"a", "b"}
ToolByte == {"p", "q", "e"}
DoneByte == {"d", "n"}
TotalByte == {"t0", "t1", "tn"}
CompletedByte == {"c0", "c1"}
FieldByte == TextByte \cup ToolByte \cup DoneByte \cup {"g"} \cup TotalByte \cup CompletedByte

None == <<>>
Some(v) == <<v>>

\* A Message without images and tool calls.
Message(role, content) ==
    [role |-> role, content |-> content, images |-> None, tool_calls |-> None]

\* The calls a tool_calls field of the wire language holds.
CallP == [name |-> "get_weather", arguments |-> "Paris"]
CallQ == [name |-> "unknown_tool", arguments |-> "Rome"]
ToolCallsOf(b) == IF b = "p" THEN <<CallP>> ELSE IF b = "q" THEN <<CallQ>> ELSE <<>>

RECURSIVE Flatten(_)
Flatten(ss) == IF ss = <<>> THEN <<>> ELSE Head(ss) \o Flatten(Tail(ss))

IsTextByte(b) == b \in TextByte
IsToolByte(b) == b \in ToolByte
IsDoneByte(b) == b \in DoneByte

\* chunk.split(|&b| b == b'\n'): the pieces between newline bytes, the empty
\* ones included ("a\n" splits into "a" and "").
RECURSIVE SplitAt(_, _)
SplitAt(chunk, acc) ==
    IF chunk = <<>> THEN <<acc>>
    ELSE IF Head(chunk) = NL THEN <<acc>> \o SplitAt(Tail(chunk), <<>>)
    ELSE SplitAt(Tail(chunk), Append(acc, Head(chunk)))

SplitLines(chunk) == SplitAt(chunk, <<>>)

\* String::from_utf8_lossy: an invalid byte becomes U+FFFD.
Utf8Lossy(line) == [i \in 1..Len(line) |-> IF line[i] = "xFF" THEN "uFFFD" ELSE line[i]]

\* serde_json accepts the text as a JSON value.
IsJson(line) ==
    /\ Len(line) >= 2
    /\ line[1] = "{"
    /\ line[Len(line)] = "}"
    /\ \A i \in 2..(Len(line) - 1) : line[i] \in FieldByte

Inner(line) == SubSeq(line, 2, Len(line) - 1)

\* The value of the last field of a class (serde_json::Map keeps the last of
\* duplicate keys), as an Option.
LastOf(s, class) ==
    LET f == SelectSeq(s, LAMBDA b : b \in class) IN
    IF f = <<>> THEN None ELSE Some(f[Len(f)])

\* The JSON value of a total or completed field.
ValueOf(b) == IF b \in {"t1", "c1"} THEN 1 ELSE IF b = "tn" THEN -1 ELSE 0

\* Value::as_u64: None unless the value is an unsigned integer.
AsU64(v) == IF v >= 0 THEN Some(v) ELSE None

\* The Ok arm of pull_model_stream's decoder: every field optional.
PullFields_ZeroDefault(json) ==
    [type |-> "pull",
     status |-> SelectSeq(json, IsTextByte),
     digest |-> IF \E i \in 1..Len(json) : json[i] = "g" THEN Some("g") ELSE None,
     total |-> LET t == LastOf(json, TotalByte) IN
               IF t = None THEN Some(0) ELSE AsU64(ValueOf(t[1])),
     completed |-> LET c == LastOf(json, CompletedByte) IN
                   IF c = None THEN Some(0) ELSE AsU64(ValueOf(c[1]))]

PullFields(json) ==
    [type |-> "pull",
     status |-> SelectSeq(json, IsTextByte),
     digest |-> IF \E i \in 1..Len(json) : json[i] = "g" THEN Some("g") ELSE None,
     total |-> LET t == LastOf(json, TotalByte) IN
               IF t = None THEN None ELSE AsU64(ValueOf(t[1])),
     completed |-> LET c == LastOf(json, CompletedByte) IN
                   IF c = None THEN None ELSE AsU64(ValueOf(c[1]))]

\* The Err arm of pull_model_stream's decoder: the line itself as status.
PullFallback(line_str) ==
    [type |-> "pull", status |-> line_str, digest |-> None, total |-> None,
     completed |-> None]

\* One non-empty line of a pull chunk: always exactly one progress event.
DecodePullLine(line) ==
    LET line_str == Utf8Lossy(line) IN
    IF IsJson(line_str) THEN <<PullFields(Inner(line_str))>>
    ELSE <<PullFallback(line_str)>>

\* serde_json::from_slice::<ChatResponse>: a JSON object with exactly one done
\* field and at most one tool_calls field (a duplicate field is an error).
IsChatResponse(line) ==
    /\ IsJson(line)
    /\ Len(SelectSeq(Inner(line), IsDoneByte)) = 1
    /\ Len(SelectSeq(Inner(line), IsToolByte)) <= 1

ChatItem(json) ==
    [type |-> "chat",
     content |-> SelectSeq(json, IsTextByte),
     tool_calls |-> LET t == SelectSeq(json, IsToolByte) IN
                    IF t = <<>> THEN None ELSE Some(ToolCallsOf(t[1])),
     done |-> \E i \in 1..Len(json) : json[i] = "d"]

\* One non-empty line of a chat chunk: one event, or none when it does not
\* decode (the diagnostic goes to stderr).
DecodeChatLine(line) ==
    IF IsChatResponse(line) THEN <<ChatItem(Inner(line))>> ELSE <<>>

DecodeLine(k, line) ==
    IF line = <<>> THEN <<>>
    ELSE IF k = "pull" THEN DecodePullLine(line)
    ELSE DecodeChatLine(line)

\* The closure given to stream.map for one Ok chunk: the events of its lines.
DecodeChunk(k, chunk) ==
    LET lines == SplitLines(chunk) IN
    Flatten([i \in 1..Len(lines) |-> DecodeLine(k, lines[i])])

ErrItem == [type |-> "err"]

\* The closure of stream.map applied to one transport item: Ok(results) for a
\* chunk, Err for a transport error (let chunk = item?).
MapItem(k, item) ==
    IF item.ok THEN [ok |-> TRUE, items |-> DecodeChunk(k, item.bytes)]
    ELSE [ok |-> FALSE, items |-> <<>>]

\* The second map: the inner iterator flatten walks through.
ToIter_Placeholder(result) ==
    IF result.ok THEN (IF result.items = <<>> THEN <<[type |-> "null"]>>
                       ELSE result.items)
    ELSE <<ErrItem>>

ToIter(result) == IF result.ok THEN result.items ELSE <<ErrItem>>

\* --------------------------------------------------------------- the server
\* Records a server may send on /api/chat and on /api/pull.
ChatRecords ==
    { <<"{", "a", "p", "n", "}">>, <<"{", "b", "q", "d", "}">>,
      <<"{", "e", "n", "}">>, <<"x">>, <<>> }

PullRecords ==
    { <<"{", "a", "c0", "tn", "}">>, <<"{", "b", "g", "t1", "}">>,
      <<"x", "x">>, <<"xFF">>, <<>> }

SeqsUpTo(S, n) == UNION { [1..m -> S] : m \in 0..n }

\* The response body: every record followed by a newline.
Wire(recs) == Flatten([i \in 1..Len(recs) |-> Append(recs[i], NL)])

\* -------------------------------------------------------------------- state
VARIABLES
    op,             \* the operation in flight: "none", "chat_stream",
                    \* "pull_stream", "chat" (send_chat_request), "pull"
    records,        \* the records the server answers with
    body,           \* the bytes of the response body
    off,            \* how many bytes of body the transport has yielded
    chunks,         \* the items the transport has yielded so far
    pending,        \* flatten's inner iterator: events not yet yielded
    ended,          \* the event stream has returned None
    delivered,      \* the events stream.next() has yielded, in order
    full_response,  \* send_chat_request: text accumulated
    tool_calls,     \* send_chat_request: Option<Vec<ToolCall>>
    ret,            \* the aggregating operation's return value, None while
                    \* it runs
    tools,          \* OllamaClient.tools
    dispatched,     \* the last handle_tool_calls call: its argument and the
                    \* tools registered when it ran, None before the first
    tool_responses, \* what the last handle_tool_calls call returned
    invoked,        \* the handler invocations the last handle_tool_calls call
                    \* made, in order
    http,           \* the HTTP requests sent so far, in order
    img,            \* send_chat_request_with_images: "none" before the call,
                    \* "reading" in the file loop, "sent" once it has called
                    \* send_chat_request, "io_error" when a read failed
    caller_messages,\* the caller's message list (the messages argument)
    given_paths,    \* the image_paths argument
    image_paths,    \* the paths the file loop has not read yet
    encoded_images, \* the base64 texts encoded so far
    reads           \* the file reads made so far, in order

svars == <<op, records, body, off, chunks, pending, ended, delivered,
           full_response, tool_calls, ret>>
tvars == <<tools, dispatched, tool_responses, invoked>>
imvars == <<img, caller_messages, given_paths, image_paths, encoded_images, reads>>
vars == <<svars, tvars, http, imvars>>

StreamOps == {"chat_stream", "pull_stream"}
AggregateOps == {"chat", "pull"}
Kind == IF op \in {"pull", "pull_stream"} THEN "pull" ELSE "chat"

OkChunks == SelectSeq(chunks, LAMBDA c : c.ok)
Errors == Len(chunks) - Len(OkChunks)

\* The consumer is polling the event stream.
Polling ==
    /\ op \in StreamOps \cup AggregateOps
    /\ ~ended
    /\ op \in AggregateOps => ret = None

Init ==
    /\ op = "none"
    /\ records = <<>>
    /\ body = <<>>
    /\ off = 0
    /\ chunks = <<>>
    /\ pending = <<>>
    /\ ended = FALSE
    /\ delivered = <<>>
    /\ full_response = <<>>
    /\ tool_calls = None
    /\ ret = None
    /\ tools = <<>>
    /\ dispatched = None
    /\ tool_responses = <<>>
    /\ invoked = <<>>
    /\ http = <<>>
    /\ img = "none"
    /\ caller_messages = <<>>
    /\ given_paths = <<>>
    /\ image_paths = <<>>
    /\ encoded_images = <<>>
    /\ reads = <<>>

\* ------------------------------------------------------------ request bodies
\* Serialize for Message: images and tool_calls are skipped when None.
ToJson(m) ==
    [k \in {"role", "content"}
            \cup (IF m.images # None THEN {"images"} ELSE {})
            \cup (IF m.tool_calls # None THEN {"tool_calls"} ELSE {}) |->
        CASE k = "role" -> m.role
          [] k = "content" -> m.content
          [] k = "images" -> m.images[1]
          [] k = "tool_calls" -> m.tool_calls[1]]

\* Tool::to_json: the schema of a tool; its handler is not part of it.
ToolJson(t) == [type |-> "function", function |-> [name |-> t.name]]

\* The body of POST /api/chat: the tools key only when tools are registered.
ChatBody(msgs, ts) ==
    [model |-> "m",
     messages |-> [i \in 1..Len(msgs) |-> ToJson(msgs[i])],
     stream |-> TRUE,
     tools |-> IF ts # <<>> THEN Some([i \in 1..Len(ts) |-> ToolJson(ts[i])])
               ELSE None]

\* The body of POST /api/pull.
PullBody == [name |-> "m", stream |-> TRUE]

HttpRequest(o, msgs) ==
    IF o \in {"pull", "pull_stream"} THEN [path |-> "/api/pull", body |-> PullBody]
    ELSE [path |-> "/api/chat", body |-> ChatBody(msgs, tools)]

\* The conversation of the calls that attach no image.
Conversation == <<Message("user", "hi")>>

Err == [ok |-> FALSE]

\* POST with stream:true answered by the server with recs; bytes_stream().
Request(o, msgs, recs) ==
    /\ op' = o
    /\ http' = Append(http, HttpRequest(o, msgs))
    /\ records' = recs
    /\ body' = Wire(recs)
    /\ UNCHANGED <<off, chunks, pending, ended, delivered, full_response,
                   tool_calls, ret>>
    /\ UNCHANGED tvars

\* POST whose send() fails: the operation returns the error (.await?) and
\* there is no stream.
RequestFails_Retry(o, msgs) ==
    /\ op' = o
    /\ http' = Append(Append(http, HttpRequest(o, msgs)), HttpRequest(o, msgs))
    /\ ret' = Some(Err)
    /\ ended' = TRUE
    /\ UNCHANGED <<records, body, off, chunks, pending, delivered,
                   full_response, tool_calls>>
    /\ UNCHANGED tvars

RequestFails(o, msgs) ==
    /\ op' = o
    /\ http' = Append(http, HttpRequest(o, msgs))
    /\ ret' = Some(Err)
    /\ ended' = TRUE
    /\ UNCHANGED <<records, body, off, chunks, pending, delivered,
                   full_response, tool_calls>>
    /\ UNCHANGED tvars

pull_model_stream ==
    /\ op = "none"
    /\ img = "none"
    /\ \/ \E recs \in SeqsUpTo(PullRecords, MaxRecs) : Request("pull_stream", Conversation, recs)
       \/ RequestFails("pull_stream", Conversation)
    /\ UNCHANGED imvars

send_chat_request_stream ==
    /\ op = "none"
    /\ img = "none"
    /\ \/ \E recs \in SeqsUpTo(ChatRecords, MaxRecs) : Request("chat_stream", Conversation, recs)
       \/ RequestFails("chat_stream", Conversation)
    /\ UNCHANGED imvars

pull_model ==
    /\ op = "none"
    /\ img = "none"
    /\ \/ \E recs \in SeqsUpTo(PullRecords, MaxRecs) : Request("pull", Conversation, recs)
       \/ RequestFails("pull", Conversation)
    /\ UNCHANGED imvars

send_chat_request ==
    /\ op = "none"
    /\ img = "none"
    /\ \/ \E recs \in SeqsUpTo(ChatRecords, MaxRecs) : Request("chat", Conversation, recs)
       \/ RequestFails("chat", Conversation)
    /\ UNCHANGED imvars

\* flatten polls the transport: the next n bytes of the body arrive as one
\* chunk and are mapped to the events of the chunk's lines.
ReadChunk ==
    /\ Polling
    /\ pending = <<>>
    /\ off < Len(body)
    /\ \E n \in 1..(Len(body) - off) :
        /\ Len(OkChunks) + 1 < MaxChunks \/ n = Len(body) - off
        /\ LET item == [ok |-> TRUE, bytes |-> SubSeq(body, off + 1, off + n)] IN
           /\ pending' = ToIter(MapItem(Kind, item))
           /\ chunks' = Append(chunks, item)
           /\ off' = off + n
    /\ UNCHANGED <<op, records, body, ended, delivered, full_response,
                   tool_calls, ret>>
    /\ UNCHANGED <<tvars, http, imvars>>

\* flatten polls the transport and the transport yields an error item.
TransportError ==
    /\ Polling
    /\ pending = <<>>
    /\ Errors < MaxErrors
    /\ LET item == [ok |-> FALSE, bytes |-> <<>>] IN
       /\ pending' = ToIter(MapItem(Kind, item))
       /\ chunks' = Append(chunks, item)
    /\ UNCHANGED <<op, records, body, off, ended, delivered, full_response,
                   tool_calls, ret>>
    /\ UNCHANGED <<tvars, http, imvars>>

Ok(text, tc) == [ok |-> TRUE, text |-> text, tool_calls |-> tc]

\* The body of send_chat_request's while loop for one item of the stream.
PushContent_Prepend(full, item) ==
    IF item.content # <<>> THEN item.content \o full ELSE full

PushContent(full, item) ==
    IF item.content # <<>> THEN full \o item.content ELSE full

UpdateToolCalls(tc, item) ==
    IF item.tool_calls # None THEN Some(item.tool_calls[1]) ELSE tc

ChatLoopBody_SkipError(item, full, tc) ==
    IF item.type = "err" THEN [full |-> full, tc |-> tc, ret |-> None]
    ELSE LET f == PushContent(full, item)
             t == UpdateToolCalls(tc, item) IN
         [full |-> f, tc |-> t,
          ret |-> IF item.done THEN Some(Ok(f, t)) ELSE None]

ChatLoopBody(item, full, tc) ==
    IF item.type = "err" THEN [full |-> full, tc |-> tc, ret |-> Some(Err)]
    ELSE LET f == PushContent(full, item)
             t == UpdateToolCalls(tc, item) IN
         [full |-> f, tc |-> t,
          ret |-> IF item.done THEN Some(Ok(f, t)) ELSE None]

\* The body of pull_model's while loop for one item of the stream.
PullLoopBody_ReturnOk(item) ==
    IF item.type = "err" THEN Some(Err) ELSE Some([ok |-> TRUE])

PullLoopBody(item) == IF item.type = "err" THEN Some(Err) ELSE None

\* A caller of a *_stream operation takes the next event.
StreamNext ==
    /\ op \in StreamOps
    /\ Polling
    /\ pending # <<>>
    /\ delivered' = Append(delivered, Head(pending))
    /\ pending' = Tail(pending)
    /\ UNCHANGED <<op, records, body, off, chunks, ended, full_response,
                   tool_calls, ret>>
    /\ UNCHANGED <<tvars, http, imvars>>

\* send_chat_request takes the next event.
ChatNext ==
    /\ op = "chat"
    /\ Polling
    /\ pending # <<>>
    /\ LET r == ChatLoopBody(Head(pending), full_response, tool_calls) IN
       /\ full_response' = r.full
       /\ tool_calls' = r.tc
       /\ ret' = r.ret
    /\ delivered' = Append(delivered, Head(pending))
    /\ pending' = Tail(pending)
    /\ UNCHANGED <<op, records, body, off, chunks, ended>>
    /\ UNCHANGED <<tvars, http, imvars>>

\* pull_model takes the next event.
PullNext ==
    /\ op = "pull"
    /\ Polling
    /\ pending # <<>>
    /\ ret' = PullLoopBody(Head(pending))
    /\ delivered' = Append(delivered, Head(pending))
    /\ pending' = Tail(pending)
    /\ UNCHANGED <<op, records, body, off, chunks, ended, full_response,
                   tool_calls>>
    /\ UNCHANGED <<tvars, http, imvars>>

\* The transport ends: stream.next() is None and the while loops fall through
\* to their final Ok.
StreamEnd ==
    /\ Polling
    /\ pending = <<>>
    /\ off = Len(body)
    /\ ended' = TRUE
    /\ ret' = IF op = "chat" THEN Some(Ok(full_response, tool_calls))
              ELSE IF op = "pull" THEN Some([ok |-> TRUE])
              ELSE ret
    /\ UNCHANGED <<op, records, body, off, chunks, pending, delivered,
                   full_response, tool_calls>>
    /\ UNCHANGED <<tvars, http, imvars>>

\* ------------------------------------------- send_chat_request_with_images
\* Messages a caller may pass: a plain one, one that already carries an image
\* and one with tool calls.
Messages ==
    { Message("user", "hi"),
      [role |-> "user", content |-> "look", images |-> Some(<<"old">>),
       tool_calls |-> None],
      [role |-> "assistant", content |-> "", images |-> None,
       tool_calls |-> Some(<<CallP>>)] }

\* The file system: std::fs::read gives the bytes of a.png and b.png and
\* fails on missing.png.
ImagePaths == {"a.png", "b.png", "missing.png"}
FileBytes(path) ==
    IF path = "a.png" THEN Some("A") ELSE IF path = "b.png" THEN Some("B") ELSE None

\* general_purpose::STANDARD.encode
Base64(bytes) == <<"base64", bytes>>

IoErr == [ok |-> FALSE, kind |-> "io"]

\* One turn of the file loop: read(image_path)? and push the encoded bytes.
ReadStep_Skip(path, encoded) ==
    LET bytes == FileBytes(path) IN
    IF bytes = None THEN [ok |-> TRUE, encoded |-> encoded]
    ELSE [ok |-> TRUE, encoded |-> Append(encoded, Base64(bytes[1]))]

ReadStep(path, encoded) ==
    LET bytes == FileBytes(path) IN
    IF bytes = None THEN [ok |-> FALSE, encoded |-> encoded]
    ELSE [ok |-> TRUE, encoded |-> Append(encoded, Base64(bytes[1]))]

\* messages.to_vec() with the images of the last message replaced.
AttachImages_All(msgs, encoded) ==
    [i \in 1..Len(msgs) |-> [msgs[i] EXCEPT !.images = Some(encoded)]]

AttachImages(msgs, encoded) ==
    IF msgs = <<>> THEN msgs
    ELSE [msgs EXCEPT ![Len(msgs)].images = Some(encoded)]

\* The call: the arguments are bound and the file loop starts.
send_chat_request_with_images ==
    /\ op = "none"
    /\ img = "none"
    /\ \E msgs \in SeqsUpTo(Messages, MaxMsgs), paths \in SeqsUpTo(ImagePaths, MaxPaths) :
        /\ caller_messages' = msgs
        /\ given_paths' = paths
        /\ image_paths' = paths
    /\ img' = "reading"
    /\ encoded_images' = <<>>
    /\ UNCHANGED <<reads, http, svars, tvars>>

\* One turn of the file loop; a failed read returns the I/O error.
ReadImage ==
    /\ img = "reading"
    /\ image_paths # <<>>
    /\ LET r == ReadStep(Head(image_paths), encoded_images) IN
       /\ reads' = Append(reads, Head(image_paths))
       /\ encoded_images' = r.encoded
       /\ image_paths' = Tail(image_paths)
       /\ img' = IF r.ok THEN "reading" ELSE "io_error"
       /\ ret' = IF r.ok THEN ret ELSE Some(IoErr)
    /\ UNCHANGED <<caller_messages, given_paths, http, tvars>>
    /\ UNCHANGED <<op, records, body, off, chunks, pending, ended, delivered,
                   full_response, tool_calls>>

\* After the loop: the copy with the images goes to send_chat_request.
SendWithImages ==
    /\ img = "reading"
    /\ image_paths = <<>>
    /\ LET messages_with_images == AttachImages(caller_messages, encoded_images) IN
       \/ \E recs \in SeqsUpTo(ChatRecords, MaxRecs) :
              Request("chat", messages_with_images, recs)
       \/ RequestFails("chat", messages_with_images)
    /\ img' = "sent"
    /\ UNCHANGED <<caller_messages, given_paths, image_paths, encoded_images, reads>>

NextImages ==
    \/ send_chat_request_with_images
    \/ ReadImage
    \/ SendWithImages

SpecImages == Init /\ [][NextImages]_vars

\* --------------------------------------------------------- the tool registry
\* Tools an application may register and calls a server may return.  A tool's
\* function is named by a handler; Invoke is the text that handler returns
\* for the arguments.
Tools ==
    { [name |-> "get_weather", function |-> "h1"],
      [name |-> "get_weather", function |-> "h2"],
      [name |-> "Get_Weather", function |-> "h1"] }
ToolCalls ==
    { CallP, CallQ, [name |-> "get_weather", arguments |-> "Rome"],
      [name |-> "Get_Weather", arguments |-> "Paris"] }

Invoke(tool, arguments) == [by |-> tool.function, of |-> arguments]

FoldCase(name) == IF name = "Get_Weather" THEN "get_weather" ELSE name

NameMatches_IgnoreCase(t, call) == FoldCase(t.name) = FoldCase(call.name)

\* |t| t.name == tool_call.function.name
NameMatches(t, call) == t.name = call.name

\* self.tools.iter().find(..): the first tool that matches, as an Option.
Find_Last(ts, call) ==
    LET I == {i \in 1..Len(ts) : NameMatches(ts[i], call)} IN
    IF I = {} THEN None ELSE Some(ts[CHOOSE i \in I : \A j \in I : j <= i])

RECURSIVE Find(_, _)
Find(ts, call) ==
    IF ts = <<>> THEN None
    ELSE IF NameMatches(Head(ts), call) THEN Some(Head(ts))
    ELSE Find(Tail(ts), call)

\* The for loop of handle_tool_calls.
RECURSIVE HandleToolCalls(_, _)
HandleToolCalls(ts, calls) ==
    IF calls = <<>> THEN <<>>
    ELSE LET found == Find(ts, Head(calls)) IN
         (IF found = None THEN <<>>
          ELSE <<Message("tool", Invoke(found[1], Head(calls).arguments))>>)
         \o HandleToolCalls(ts, Tail(calls))

\* The handler invocations of that loop (tool.function applied), in order.
RECURSIVE HandlerCalls(_, _)
HandlerCalls(ts, calls) ==
    IF calls = <<>> THEN <<>>
    ELSE LET found == Find(ts, Head(calls)) IN
         (IF found = None THEN <<>>
          ELSE <<[function |-> found[1].function,
                  arguments |-> Head(calls).arguments]>>)
         \o HandlerCalls(ts, Tail(calls))

add_tool_Prepend ==
    /\ Len(tools) < MaxTools
    /\ \E t \in Tools : tools' = <<t>> \o tools
    /\ UNCHANGED <<dispatched, tool_responses, invoked>>
    /\ UNCHANGED <<svars, http, imvars>>

add_tool ==
    /\ Len(tools) < MaxTools
    /\ \E t \in Tools : tools' = Append(tools, t)
    /\ UNCHANGED <<dispatched, tool_responses, invoked>>
    /\ UNCHANGED <<svars, http, imvars>>

handle_tool_calls ==
    /\ \E calls \in SeqsUpTo(ToolCalls, MaxCalls) :
        /\ tool_responses' = HandleToolCalls(tools, calls)
        /\ invoked' = HandlerCalls(tools, calls)
        /\ dispatched' = Some([calls |-> calls, tools |-> tools])
    /\ UNCHANGED tools
    /\ UNCHANGED <<svars, http, imvars>>

NextTools ==
    \/ add_tool
    \/ handle_tool_calls

SpecTools == Init /\ [][NextTools]_vars

Next ==
    \/ pull_model_stream
    \/ send_chat_request_stream
    \/ pull_model
    \/ send_chat_request
    \/ ReadChunk
    \/ TransportError
    \/ StreamNext
    \/ ChatNext
    \/ PullNext
    \/ StreamEnd

Spec == Init /\ [][Next]_vars

\* A client in use: tools are registered while no send_chat_request is in
\* flight (add_tool takes &mut self), a chat runs to its return, and the tool
\* calls it returned are handed to handle_tool_calls.  The transport yields
\* the response body as one chunk and does not fail.
AddToolBetweenCalls ==
    /\ op = "none" \/ ret # None
    /\ add_tool

DispatchReturnedCalls ==
    /\ op = "chat"
    /\ ret # None /\ ret[1].ok
    /\ ret[1].tool_calls # None
    /\ dispatched = None
    /\ handle_tool_calls
    /\ dispatched'[1].calls = ret[1].tool_calls[1]

ReadWholeBody ==
    /\ ReadChunk
    /\ off' = Len(body)

NextClient ==
    \/ AddToolBetweenCalls
    \/ send_chat_request
    \/ ReadWholeBody
    \/ ChatNext
    \/ StreamEnd
    \/ DispatchReturnedCalls

SpecClient == Init /\ [][NextClient]_vars

\* The aggregators alone, awaited to completion: the runtime keeps polling
\* the future, and the transport keeps yielding until the body has ended.
NextAggregate ==
    \/ pull_model
    \/ send_chat_request
    \/ ReadChunk
    \/ TransportError
    \/ ChatNext
    \/ PullNext
    \/ StreamEnd

\* ENABLED <<ReadChunk>>_vars: the body has bytes the transport has not
\* yielded and flatten has nothing left to hand out.
CanRead == Polling /\ pending = <<>> /\ off < Len(body)

\* WF_vars(ReadChunk), with its ENABLED written out as CanRead.
TransportFair == []<>(~CanRead) \/ []<><<ReadChunk>>_vars

SpecAggregate ==
    /\ Init
    /\ [][NextAggregate]_vars
    /\ TransportFair
    /\ WF_vars(ChatNext)
    /\ WF_vars(PullNext)
    /\ WF_vars(StreamEnd)

\* ----------------------------------------------------------------- claims
IsSuffix(s, t) == Len(s) <= Len(t) /\ s = SubSeq(t, Len(t) - Len(s) + 1, Len(t))

\* The events of a sequence of complete records, in order.
EventsOf(k, recs) == Flatten([i \in 1..Len(recs) |-> DecodeLine(k, recs[i])])

\* Every event the event stream holds or has yielded, from what the transport
\* has yielded.
StreamEvents == Flatten([i \in 1..Len(chunks) |-> ToIter(MapItem(Kind, chunks[i]))])

IsDone(e) == e.type = "chat" /\ e.done
IsErr(e) == e.type = "err"

RECURSIVE UpToFirstDone(_)
UpToFirstDone(evs) ==
    IF evs = <<>> THEN <<>>
    ELSE IF IsDone(Head(evs)) THEN <<Head(evs)>>
    ELSE <<Head(evs)>> \o UpToFirstDone(Tail(evs))

ConcatContent(evs) ==
    Flatten([i \in 1..Len(evs) |-> IF evs[i].type = "chat" THEN evs[i].content ELSE <<>>])

Returned == ret # None
ReturnedOk == ret # None /\ ret[1].ok

\* The number of records whose terminating newline the transport has yielded.
NewlinesReceived == Len(SelectSeq(SubSeq(body, 1, off), LAMBDA b : b = NL))

\* C1: chunking-invariance.  When a pull or chat event stream has ended
\* without a transport error, the events it delivered are exactly the events
\* of the records the server sent, in order, wherever the chunk boundaries
\* fell.
C1_ChunkingInvariance ==
    (op \in StreamOps /\ ended /\ Errors = 0)
        => delivered = EventsOf(Kind, records)

\* C2: only complete records are decoded.  Every event a pull or chat event
\* stream delivers is the event of one of the records whose terminating
\* newline has been received; no event is made from a fragment of a record.
C2_OnlyCompleteRecords ==
    op \in StreamOps =>
        \A i \in 1..Len(delivered) :
            ~IsErr(delivered[i]) =>
                \E j \in 1..NewlinesReceived :
                    <<delivered[i]>> = DecodeLine(Kind, records[j])

\* C3: when send_chat_request returns Ok, its text is the concatenation, in
\* order, of the content of the stream's events up to and including the
\* first done event (of all events when there is none); content after the
\* first done event is not included.
C3_FullText ==
    (op = "chat" /\ ReturnedOk)
        => ret[1].text = ConcatContent(UpToFirstDone(StreamEvents))

\* C3 witness: send_chat_request has returned a non-empty text and the stream
\* held an event with content after the first done event.
C3_Witness ==
    /\ op = "chat"
    /\ ReturnedOk
    /\ ret[1].text # <<>>
    /\ ConcatContent(StreamEvents) # ConcatContent(UpToFirstDone(StreamEvents))

HasToolCalls(e) == e.type = "chat" /\ e.tool_calls # None /\ e.tool_calls[1] # <<>>

\* C4: when send_chat_request returns Ok and some event it consumed carried a
\* non-empty tool_calls list, it returns the last such list: an absent or
\* empty tool_calls field of a later event does not replace it.
C4_LastNonEmptyToolCalls ==
    (op = "chat" /\ ReturnedOk) =>
        LET ne == SelectSeq(delivered, HasToolCalls) IN
        ne # <<>> => ret[1].tool_calls = Some(ne[Len(ne)].tool_calls[1])

\* C5: in the event sequence of send_chat_request_stream a done event is
\* terminal: no event is delivered after it.
C5_DoneIsTerminal ==
    op = "chat_stream" =>
        \A i \in 1..(Len(delivered) - 1) : ~IsDone(delivered[i])

\* C6: when a pull event stream has ended without a transport error, every
\* non-empty record that is not valid JSON has yielded exactly one progress
\* event whose status is the record's text and whose other fields are absent.
C6_MalformedPullRecord ==
    (op = "pull_stream" /\ ended /\ Errors = 0) =>
        \A j \in 1..Len(records) :
            (records[j] # <<>> /\ ~IsJson(Utf8Lossy(records[j]))) =>
                Cardinality({i \in 1..Len(delivered) :
                                delivered[i] = PullFallback(Utf8Lossy(records[j]))})
                    = Cardinality({k \in 1..Len(records) : records[k] = records[j]})

\* C7: when a chat event stream has ended without a transport error, a record
\* that does not decode has yielded no event and the events of all the
\* records after it have been delivered, in order, as the last events.
C7_MalformedChatRecordDropped ==
    (op = "chat_stream" /\ ended /\ Errors = 0) =>
        \A j \in 1..Len(records) :
            (records[j] # <<>> /\ ~IsChatResponse(records[j])) =>
                /\ IsSuffix(EventsOf("chat", SubSeq(records, j + 1, Len(records))),
                            delivered)
                /\ Len(delivered) <= Len(records) - 1

\* C8: a transport error is delivered as one error event that is terminal: no
\* event of a pull or chat event stream is delivered after an error event.
C8_TransportErrorTerminal ==
    op \in StreamOps =>
        \A i \in 1..(Len(delivered) - 1) : ~IsErr(delivered[i])

\* C9: send_chat_request and pull_model abort on the first error event: the
\* error event is the last event they consume and they return an error that
\* carries no text and no tool calls.
C9_AbortOnFirstError ==
    op \in AggregateOps =>
        \A i \in 1..Len(delivered) :
            IsErr(delivered[i]) => (i = Len(delivered) /\ ret = Some(Err))

\* C9 witness: send_chat_request returned an error after it had accumulated
\* text, with part of the body still unread.
C9_Witness ==
    /\ op = "chat"
    /\ ret = Some(Err)
    /\ full_response # <<>>
    /\ off < Len(body)

\* C10: handle_tool_calls returns one role "tool" message per call whose name
\* equals a registered tool's name, in the order of the calls, holding the
\* text the first tool of that name returns for the call's arguments; calls
\* that name no registered tool produce nothing.
C10_HandleToolCalls ==
    dispatched # None =>
        LET ts == dispatched[1].tools
            calls == dispatched[1].calls
            Registered(c) == \E i \in 1..Len(ts) : ts[i].name = c.name
            matched == SelectSeq(calls, Registered)
            First(c) == ts[CHOOSE i \in 1..Len(ts) :
                              /\ ts[i].name = c.name
                              /\ \A j \in 1..(i - 1) : ts[j].name # c.name]
        IN tool_responses =
               [i \in 1..Len(matched) |->
                   Message("tool", Invoke(First(matched[i]), matched[i].arguments))]

\* C10 witness: a call of a registered tool and a call that names no
\* registered tool were dispatched together and one message came back.
C10_Witness ==
    /\ dispatched # None
    /\ Len(dispatched[1].calls) = 2
    /\ Len(tool_responses) = 1
    /\ tool_responses[1].role = "tool"

\* The base64 texts of all the files of the call, in the order of the paths.
AllEncoded == [i \in 1..Len(given_paths) |-> Base64(FileBytes(given_paths[i])[1])]

\* The JSON message j carries the role, content and tool_calls of m.
SameButImages(j, m) ==
    /\ j.role = m.role
    /\ j.content = m.content
    /\ ("tool_calls" \in DOMAIN j) <=> (m.tool_calls # None)
    /\ m.tool_calls # None => j.tool_calls = m.tool_calls[1]

\* The JSON message j carries the images m was given with, or none.
SameImages(j, m) ==
    /\ ("images" \in DOMAIN j) <=> (m.images # None)
    /\ m.images # None => j.images = m.images[1]

\* C11: the request send_chat_request_with_images sends holds the caller's
\* messages with role, content and tool_calls unchanged, every message but
\* the last with the images the caller gave it, and the last with the
\* encoded images of the call; the caller's list is never changed.
C11_ImagesOnLastOnly ==
    /\ [](img = "sent" =>
            LET sent == http[Len(http)].body.messages
                n == Len(caller_messages) IN
            /\ Len(sent) = n
            /\ \A i \in 1..n : SameButImages(sent[i], caller_messages[i])
            /\ \A i \in 1..(n - 1) : SameImages(sent[i], caller_messages[i])
            /\ n > 0 => ("images" \in DOMAIN sent[n] /\ sent[n].images = AllEncoded))
    /\ [][img # "none" => caller_messages' = caller_messages]_vars

\* C11 witness: a request was sent for two messages, the first already with
\* an image of its own, and one image file.
C11_Witness ==
    /\ img = "sent"
    /\ Len(caller_messages) = 2
    /\ caller_messages[1].images # None
    /\ Len(given_paths) = 1

\* C12: every file is read before the request is sent, and when a file of the
\* call cannot be read, whatever its position, the call returns an I/O error
\* and no HTTP request is sent.
C12_ReadsBeforeRequest ==
    /\ img = "io_error" => (http = <<>> /\ ret = Some(IoErr))
    /\ (\E i \in 1..Len(given_paths) : FileBytes(given_paths[i]) = None) => http = <<>>
    /\ (img # "none" /\ http # <<>>) => reads = given_paths

\* C12 witness: the second file of a call was unreadable, after the first had
\* been read.
C12_Witness ==
    /\ img = "io_error"
    /\ Len(reads) = 2
    /\ FileBytes(reads[1]) # None

NonEmpty(line) == line # <<>>

\* The events one transport item stands for: those of the decodable lines of
\* a chunk, in order, or the one error event of a transport error.
ReadEvents(c) ==
    IF c.ok THEN EventsOf(Kind, SplitLines(c.bytes)) ELSE <<ErrItem>>

\* C13: the event stream is the flattening of the per-read event lists: what
\* it has delivered, followed by what it still holds, is exactly the events
\* of the decodable records of each read, read after read and in record
\* order, with nothing for a read that holds no decodable record.
C13_FlattenReads ==
    op \in StreamOps =>
        delivered \o pending = Flatten([i \in 1..Len(chunks) |-> ReadEvents(chunks[i])])

\* C13 witness: a first read with two records has delivered two events and a
\* second read with no record has delivered none.
C13_Witness ==
    /\ op \in StreamOps
    /\ ended
    /\ Len(chunks) = 2
    /\ Len(ReadEvents(chunks[1])) = 2
    /\ ReadEvents(chunks[2]) = <<>>
    /\ Len(delivered) = 2

\* C14: empty records are never surfaced: without a transport error, a pull
\* or chat event stream never delivers the event of an empty line and never
\* more events than the body has non-empty newline-separated segments.
C14_EmptyRecordsDropped ==
    (op \in StreamOps /\ Errors = 0) =>
        /\ \A i \in 1..Len(delivered) : delivered[i] # PullFallback(<<>>)
        /\ Len(delivered) <= Len(SelectSeq(SplitLines(body), NonEmpty))

\* The non-empty lines the pull decoder has been given, in order; a transport
\* error stands as an empty line, so that line k made event k.
PullLines ==
    Flatten([i \in 1..Len(chunks) |->
                IF chunks[i].ok THEN SelectSeq(SplitLines(chunks[i].bytes), NonEmpty)
                ELSE << <<>> >>])

FieldOf(json, class) == LastOf(json, class)

\* C15 as claimed: for every line of a pull stream that is valid JSON an
\* event is emitted in which an absent digest, total or completed is None and
\* a present one is reported with its value.
C15_PresentFieldsReported ==
    op \in {"pull", "pull_stream"} =>
        LET lines == PullLines
            events == delivered \o pending IN
        /\ Len(events) = Len(lines)
        /\ \A k \in 1..Len(lines) :
              IsJson(lines[k]) =>
                LET e == events[k]
                    json == Inner(lines[k])
                    t == FieldOf(json, TotalByte)
                    c == FieldOf(json, CompletedByte)
                    g == FieldOf(json, {"g"}) IN
                /\ e.type = "pull"
                /\ e.digest = g
                /\ e.total = (IF t = None THEN None ELSE Some(ValueOf(t[1])))
                /\ e.completed = (IF c = None THEN None ELSE Some(ValueOf(c[1])))

\* C15 amended: for every line of a pull stream that is valid JSON an event
\* is emitted in which an absent digest, total or completed is None, never 0
\* or empty, and a present total or completed is reported with its value
\* when that is an unsigned integer and as None otherwise.
C15_OptionalFields ==
    op \in {"pull", "pull_stream"} =>
        LET lines == PullLines
            events == delivered \o pending IN
        /\ Len(events) = Len(lines)
        /\ \A k \in 1..Len(lines) :
              IsJson(lines[k]) =>
                LET e == events[k]
                    json == Inner(lines[k])
                    t == FieldOf(json, TotalByte)
                    c == FieldOf(json, CompletedByte)
                    g == FieldOf(json, {"g"}) IN
                /\ e.type = "pull"
                /\ e.digest = g
                /\ e.total = (IF t # None /\ ValueOf(t[1]) \in Nat
                              THEN Some(ValueOf(t[1])) ELSE None)
                /\ e.completed = (IF c # None /\ ValueOf(c[1]) \in Nat
                                  THEN Some(ValueOf(c[1])) ELSE None)

\* C15 witness: a pull event was delivered with completed 0 and no digest,
\* and one with total 1 and no completed.
C15_Witness ==
    /\ op = "pull_stream"
    /\ \E i \in 1..Len(delivered) :
          /\ delivered[i].type = "pull"
          /\ delivered[i].completed = Some(0)
          /\ delivered[i].digest = None
    /\ \E i \in 1..Len(delivered) :
          /\ delivered[i].type = "pull"
          /\ delivered[i].total = Some(1)
          /\ delivered[i].completed = None

HasDone(events) == \E i \in 1..Len(events) : IsDone(events[i])
HasErr(events) == \E i \in 1..Len(events) : IsErr(events[i])

\* The request itself failed: no stream was ever opened.
RequestFailed == ended /\ ret = Some(Err) /\ chunks = <<>>

C16_WitnessPull ==
    /\ op = "pull"
    /\ ReturnedOk
    /\ Len(delivered) = 2

IsPrefix(s, t) == Len(s) <= Len(t) /\ s = SubSeq(t, 1, Len(s))

\* C18: the tools list is append-only and otherwise read-only.  Every step
\* that changes it appends one tool and does nothing else (no request is
\* sent, no event taken, no tool call dispatched in that step), so no step
\* removes or reorders tools; the request that was sent lists the schemas of
\* the tools registered when it was built, in registration order, and
\* handle_tool_calls ran on the tools registered when it was called.
C18_ToolsAppendOnly ==
    /\ [][tools' # tools =>
            /\ \E t \in Tools : tools' = Append(tools, t)
            /\ UNCHANGED <<svars, http, dispatched, tool_responses, invoked>>]_vars
    /\ [][IsPrefix(tools, tools')]_vars
    /\ [](http # <<>> =>
            \E n \in 0..Len(tools) :
                http[1].body.tools =
                    (IF n = 0 THEN None
                     ELSE Some([i \in 1..n |-> ToolJson(tools[i])])))
    /\ [](dispatched # None => IsPrefix(dispatched[1].tools, tools))

\* C18 witness: a request listing one registered tool was sent, its returned
\* tool call was dispatched to that tool, and a second tool was registered
\* after the chat returned.
C18_Witness ==
    /\ Len(tools) = 2
    /\ http # <<>>
    /\ http[1].body.tools # None
    /\ Len(http[1].body.tools[1]) = 1
    /\ dispatched # None
    /\ tool_responses # <<>>

\* The bytes of the Ok chunks read so far, in order.
BytesRead == Flatten([i \in 1..Len(OkChunks) |-> OkChunks[i].bytes])

\* C19: exactly one HTTP request is issued per invocation and none after it,
\* whatever fails; the body is read once, front to back, never again from
\* an earlier offset; a failed send opens no stream; every transport error
\* is one error event of the stream; and the value an aggregator has
\* returned is final.
C19_NoRetry ==
    /\ [](Len(http) = IF op = "none" THEN 0 ELSE 1)
    /\ [][op # "none" => http' = http]_vars
    /\ [](BytesRead = SubSeq(body, 1, off))
    /\ [](RequestFailed => pending = <<>> /\ delivered = <<>>)
    /\ [](Len(SelectSeq(delivered \o pending, IsErr)) = Errors)
    /\ [][ret # None => ret' = ret]_vars

\* C19 witness: send_chat_request has returned the error of a transport
\* failure that came after part of the body, with one request sent.
C19_Witness ==
    /\ op = "chat"
    /\ ret = Some(Err)
    /\ Errors = 1
    /\ off > 0
    /\ off < Len(body)
    /\ Len(http) = 1

\* C19 witness: a send that failed, with one request sent.
C19_WitnessSend ==
    /\ RequestFailed
    /\ Len(http) = 1

\* C20: when handle_tool_calls ran, every call whose name is registered made
\* exactly one handler invocation and exactly one message, both by the tool
\* registered first under that name and never by a later duplicate, and a
\* call whose name is not registered made none.
C20_FirstRegisteredOnly ==
    dispatched # None =>
        LET ts == dispatched[1].tools
            calls == dispatched[1].calls
            Named(c) == {i \in 1..Len(ts) : ts[i].name = c.name}
            Matching == SelectSeq(calls, LAMBDA c : Named(c) # {})
            Earliest(c) == ts[CHOOSE i \in Named(c) : \A j \in Named(c) : i <= j]
        IN /\ Len(invoked) = Len(Matching)
           /\ Len(tool_responses) = Len(Matching)
           /\ \A k \in 1..Len(Matching) :
                /\ invoked[k].function = Earliest(Matching[k]).function
                /\ invoked[k].arguments = Matching[k].arguments
                /\ tool_responses[k].role = "tool"
                /\ tool_responses[k].content.by = Earliest(Matching[k]).function
                /\ tool_responses[k].content.of = Matching[k].arguments

\* C20 witness: two tools of the same name with different handlers were
\* registered and two calls of that name were dispatched.
C20_Witness ==
    /\ dispatched # None
    /\ Len(dispatched[1].tools) = 2
    /\ dispatched[1].tools[1].name = dispatched[1].tools[2].name
    /\ dispatched[1].tools[1].function # dispatched[1].tools[2].function
    /\ Len(dispatched[1].calls) = 2
    /\ \A k \in 1..2 : dispatched[1].calls[k].name = dispatched[1].tools[1].name
    /\ Len(invoked) = 2

====
